---------------------------- MODULE Spec2Model ----------------------------
(***************************************************************************)
(* The GDB remote-serial-protocol session engine of gdbstub:               *)
(* GdbStubImpl::handle_packet, GdbStubImpl::handle_command and             *)
(* TargetResultExt::handle_error (src/stub/core_impl.rs).                  *)
(*                                                                         *)
(* One call of handle_packet is modelled as a run of steps (pc), so that   *)
(* the order of the writes on the connection, of the handler invocation    *)
(* and of the target capability queries can be observed in `log`.          *)
(***************************************************************************)
EXTENDS Integers, Sequences, FiniteSets, TLC

(***************************************************************************)
(* Bounds of the model.                                                    *)
(***************************************************************************)
\* longest response body an extension handler writes
MaxBody == 1
\* longest raw payload of an Unknown command
MaxRaw == 2
\* thread ids are 1..MaxTid
MaxTid == 2
\* exit codes carried by TargetExited are 0..MaxExit
MaxExit == 1
\* target-defined fatal error values are 1..MaxFatal
MaxFatal == 2
\* OS error codes carried by TargetError::Io are 0..MaxOsError
MaxOsError == 258
\* signals carried by TargetTerminated are 1..MaxSignal
MaxSignal == 1
\* values of a successful target operation are 0..MaxValue
MaxValue == 1

(***************************************************************************)
(* Program constants.                                                      *)
(***************************************************************************)
SINGLE_THREAD_TID == 1
\* EREMOTEIO, the code of TargetError::NonFatal
EREMOTEIO == 121
\* the largest value of the u8 error code
U8_MAX == 255

(***************************************************************************)
(* VARIABLES                                                               *)
(***************************************************************************)
VARIABLES
    no_ack_mode,        \* GdbStubImpl.no_ack_mode
    current_mem_tid,    \* GdbStubImpl.current_mem_tid
    current_resume_tid, \* GdbStubImpl.current_resume_tid
    world,              \* which commands and target results the session meets
    prev,               \* history: the last diagnostic call, to compare the next with
    pc,                 \* position inside handle_packet ("idle": not in a call)
    packet,             \* the packet of the current (or last) call
    log,                \* what the current (or last) call did, in order
    tres,               \* what the target operation of the handler returned
    hres,               \* the result of handle_command
    disconnect_reason,  \* the local disconnect_reason of handle_packet
    ret,                \* the value the last call returned
    entry,              \* the session state when the current call began
    alive               \* the driver still pumps packets into the session

vars == <<no_ack_mode, current_mem_tid, current_resume_tid, world, prev, pc, packet,
          log, tres, hres, disconnect_reason, ret, entry, alive>>


(***************************************************************************)
(* Data types.                                                             *)
(***************************************************************************)
\* enum DisconnectReason; NoReason is the None of Option<DisconnectReason>
NoReason == [r |-> "None", v |-> 0]

DisconnectReason ==
    {[r |-> "TargetExited", v |-> c] : c \in 0..MaxExit}
        \cup {[r |-> "TargetTerminated", v |-> s] : s \in 1..MaxSignal}
        \cup {[r |-> "Disconnect", v |-> 0], [r |-> "Kill", v |-> 0]}

\* enum HandlerStatus
HandlerStatus ==
    {[s |-> "Handled", reason |-> NoReason],
     [s |-> "NeedsOk", reason |-> NoReason],
     [s |-> "DeferredStopReason", reason |-> NoReason]}
        \cup {[s |-> "Disconnect", reason |-> r] : r \in DisconnectReason}

\* enum State
State ==
    {[s |-> "Pump", reason |-> NoReason],
     [s |-> "DeferredStopReason", reason |-> NoReason],
     [s |-> "CtrlCInterrupt", reason |-> NoReason]}
        \cup {[s |-> "Disconnect", reason |-> r] : r \in DisconnectReason}

NoStatus == [s |-> "", reason |-> NoReason]

\* Result<_, GdbStubError>: Ok(v), or Err(err) where err carries ev
Ok(v) == [ok |-> TRUE, v |-> v, err |-> "", ev |-> 0]
Err(e, ev) == [ok |-> FALSE, v |-> NoStatus, err |-> e, ev |-> ev]
NoResult == [ok |-> FALSE, v |-> NoStatus, err |-> "none", ev |-> 0]

\* Result<V, TargetError<T>>: what a fallible target operation returns, with
\* the Errno codes and the OS error codes of Io drawn from the given sets
\* (`some` tells whether the io::Error of Io has an OS error code)
TargetResults(errnos, oserrors) ==
    {[t |-> "Ok", v |-> x, some |-> TRUE] : x \in 0..MaxValue}
        \cup {[t |-> "Fatal", v |-> e, some |-> TRUE] : e \in 1..MaxFatal}
        \cup {[t |-> "NonFatal", v |-> 0, some |-> TRUE]}
        \cup {[t |-> "Errno", v |-> c, some |-> TRUE] : c \in errnos}
        \cup {[t |-> "Io", v |-> c, some |-> TRUE] : c \in oserrors}
        \cup {[t |-> "Io", v |-> 0, some |-> FALSE]}

\* no target operation was called
NoTargetResult == [t |-> "", v |-> 0, some |-> FALSE]

\* every target result
TargetResult == TargetResults(0..U8_MAX, 0..MaxOsError)

\* the target results of a session that meets every command family: the codes
\* at the edges of one and of two hex digits, and the codes the protocol names
SampleResult == TargetResults({0, 14, 15, 16, EREMOTEIO, U8_MAX}, {14, MaxOsError})

\* SpecificIdKind
SpecificIdKind ==
    {[kind |-> "WithId", id |-> t] : t \in 1..MaxTid} \cup {[kind |-> "All", id |-> 0]}

(***************************************************************************)
(* TargetResultExt::handle_error                                           *)
(***************************************************************************)
\* `x as u8`
as_u8(x) == x % (U8_MAX + 1)

\* e.raw_os_error().unwrap_or(d)
raw_os_error_unwrap_or(self, d) == IF self.some THEN self.v ELSE d

\* variant of handle_error: the code of Errno is dropped for 121
handle_error_errno_dropped(self) ==
    IF self.t = "Ok" THEN [ok |-> TRUE, v |-> self.v, err |-> "", ev |-> 0]
    ELSE IF self.t = "Fatal" THEN [ok |-> FALSE, v |-> 0, err |-> "TargetError", ev |-> self.v]
    ELSE [ok |-> FALSE, v |-> 0, err |-> "NonFatalError", ev |-> EREMOTEIO]
\* fn handle_error(self) -> Result<V, GdbStubError<T, C>>
handle_error(self) ==
    IF self.t = "Ok" THEN [ok |-> TRUE, v |-> self.v, err |-> "", ev |-> 0]
    ELSE IF self.t = "Fatal" THEN [ok |-> FALSE, v |-> 0, err |-> "TargetError", ev |-> self.v]
    ELSE LET code == CASE self.t = "NonFatal" -> EREMOTEIO
                       [] self.t = "Errno" -> self.v
                       [] self.t = "Io" -> as_u8(raw_os_error_unwrap_or(self, EREMOTEIO))
         IN [ok |-> FALSE, v |-> 0, err |-> "NonFatalError", ev |-> code]


(***************************************************************************)
(* What a call does, in order (the elements of `log`).                     *)
(***************************************************************************)
\* conn.write(b): a byte written to the connection directly
Raw(b) == [k |-> "raw", v |-> b, a |-> ""]
\* a byte of the response body, written through a ResponseWriter
Res(c) == [k |-> "res", v |-> c, a |-> ""]
\* ResponseWriter::flush: the frame written so far is ended and sent
Flushed == [k |-> "flush", v |-> "", a |-> ""]
\* an extension handler is invoked
Call(h) == [k |-> "call", v |-> h, a |-> ""]
\* a capability query q on the target, answered "some" or "none" (an Option),
\* or "true" or "false"
Query(q, a) == [k |-> "query", v |-> q, a |-> a]

(***************************************************************************)
(* ResponseWriter (protocol/response_writer.rs is not part of the sources  *)
(* at hand; modelled from its use and from the specification, sections 2   *)
(* and 6).                                                                 *)
(***************************************************************************)
HexDigit == <<"0", "1", "2", "3", "4", "5", "6", "7",
              "8", "9", "a", "b", "c", "d", "e", "f">>

\* ResponseWriter::write_str(s), s a sequence of characters
write_str(s) == [i \in 1..Len(s) |-> Res(s[i])]

\* ResponseWriter::write_hex(b): two lower-case hex digits of the byte b
write_hex(b) == <<Res(HexDigit[(b \div 16) + 1]), Res(HexDigit[(b % 16) + 1])>>

\* ResponseWriter::write_num(n) for a u8 n
write_num(n) == write_hex(n)

\* ResponseWriter::write_hex_buf(buf)
RECURSIVE write_hex_buf(_)
write_hex_buf(buf) ==
    IF buf = <<>> THEN <<>> ELSE write_hex(Head(buf)) \o write_hex_buf(Tail(buf))

\* ResponseWriter::flush()
flush == <<Flushed>>

\* A run of connection operations either completes, or fails at one of them
\* after the earlier ones took effect (Connection::write / flush return Err).
Attempts(evs) ==
    {[ok |-> TRUE, done |-> evs]}
        \cup {[ok |-> FALSE, done |-> SubSeq(evs, 1, n)] : n \in 0..(Len(evs) - 1)}


(***************************************************************************)
(* Packets and commands.                                                   *)
(***************************************************************************)
RECURSIVE SeqsUpTo(_, _)
SeqsUpTo(S, n) ==
    IF n = 0 THEN {<<>>}
    ELSE LET shorter == SeqsUpTo(S, n - 1)
         IN shorter \cup {Append(q, x) : q \in shorter, x \in S}

\* the families of enum Command that an extension handler owns
Families ==
    {"Base", "Resume", "XUpcasePacket", "SingleRegisterAccess", "Breakpoints",
     "CatchSyscalls", "ExtendedMode", "MonitorCmd", "SectionOffsets", "ReverseCont",
     "ReverseStep", "MemoryMap", "HostIo", "ExecFile", "Auxv"}

\* the first byte of an Unknown command: the four resume requests and another
RawBytes == {"c", "C", "s", "S", "x"}

\* the bytes after the first: a resume request and another
RawTailBytes == {"c", "x"}

\* the raw payloads of Unknown commands: empty, or a first byte and a tail
RawCommands ==
    {<<>>} \cup {<<b>> \o t : b \in RawBytes, t \in SeqsUpTo(RawTailBytes, MaxRaw - 1)}

\* enum Command
Command ==
    {[family |-> f, raw |-> <<>>] : f \in Families}
        \cup {[family |-> "Unknown", raw |-> r] : r \in RawCommands}

NoCommand == [family |-> "", raw |-> <<>>]

\* enum Packet
Packet ==
    {[kind |-> k, cmd |-> NoCommand] : k \in {"Ack", "Nack", "Interrupt"}}
        \cup {[kind |-> "Command", cmd |-> c] : c \in Command}


\* the commands and the target results a session meets: in world "session"
\* every command, with target results from SampleResult; in world "errors"
\* the base commands only, with every target result
Worlds == {"session", "errors", "twice"}

CommandsOf(w) ==
    IF w = "session" THEN Command
    ELSE IF w = "errors" THEN {c \in Command : c.family = "Base"}
    ELSE {c \in Command : c.family \in {"Base", "Unknown"}}

ResultsOf(w) == IF w = "errors" THEN TargetResult ELSE SampleResult

(***************************************************************************)
(* The extension handlers (stub/core_impl/*.rs are not part of the sources *)
(* at hand; modelled from the handler contract of the specification,       *)
(* sections 3, 4.3 and 8).  A handler routes a fallible target operation   *)
(* through handle_error; on an error it returns at once, having written    *)
(* nothing; on success it writes a response body and returns its status.   *)
(* A handler that defers the stop reason writes nothing.  Only the handler *)
(* of the base commands changes the session state: the ack-mode command    *)
(* sets no_ack_mode, the thread-select command sets a thread selector.     *)
(***************************************************************************)
BodyChars == {"m"}

Bodies == SeqsUpTo(BodyChars, MaxBody)

\* the error of `?` on a failed connection operation
ConnectionWrite == Err("ConnectionWrite", 0)

Run(events, tr, res, na, mt, rt) ==
    [events |-> events, tr |-> tr, res |-> res, na |-> na, mt |-> mt, rt |-> rt]

NeedsOk == [s |-> "NeedsOk", reason |-> NoReason]
Handled == [s |-> "Handled", reason |-> NoReason]

\* the runs of handler h from a session state, its target operation returning tr
HandlerRunsOn(h, tr, na, mt, rt) ==
    LET r == handle_error(tr)
        replies ==
            {Run(<<Call(h)>> \o a.done, tr,
                 IF a.ok THEN Ok(st) ELSE ConnectionWrite, na, mt, rt) :
               a \in UNION {Attempts(write_str(b)) : b \in Bodies},
               st \in HandlerStatus}
        owned ==
            IF h = "handle_base"
            THEN {Run(<<Call(h)>>, tr, Ok(NeedsOk), TRUE, mt, rt)}
                 \cup {Run(<<Call(h)>>, tr, Ok(NeedsOk), na, t, rt) : t \in 1..MaxTid}
                 \cup {Run(<<Call(h)>>, tr, Ok(NeedsOk), na, mt, k) : k \in SpecificIdKind}
            ELSE {}
    IN IF ~r.ok
       THEN {Run(<<Call(h)>>, tr, Err(r.err, r.ev), na, mt, rt)}
       ELSE {x \in replies :
               (x.res.ok /\ x.res.v.s = "DeferredStopReason") => x.events = <<Call(h)>>}
            \cup owned

\* the runs of handler h, the target's operation returning one of `results`
HandlerRuns(h, results, na, mt, rt) ==
    UNION {HandlerRunsOn(h, tr, na, mt, rt) : tr \in results}

(***************************************************************************)
(* GdbStubImpl::handle_command                                             *)
(***************************************************************************)
\* variant of HandlerOf: the two reverse-execution families are crossed
HandlerOf_crossed(family) ==
    CASE family = "Base" -> "handle_base"
      [] family = "Resume" -> "handle_stop_resume"
      [] family = "XUpcasePacket" -> "handle_x_upcase_packet"
      [] family = "SingleRegisterAccess" -> "handle_single_register_access"
      [] family = "Breakpoints" -> "handle_breakpoints"
      [] family = "CatchSyscalls" -> "handle_catch_syscalls"
      [] family = "ExtendedMode" -> "handle_extended_mode"
      [] family = "MonitorCmd" -> "handle_monitor_cmd"
      [] family = "SectionOffsets" -> "handle_section_offsets"
      [] family = "ReverseCont" -> "handle_reverse_step"
      [] family = "ReverseStep" -> "handle_reverse_cont"
      [] family = "MemoryMap" -> "handle_memory_map"
      [] family = "HostIo" -> "handle_host_io"
      [] family = "ExecFile" -> "handle_exec_file"
      [] family = "Auxv" -> "handle_auxv"

\* the handler each Command family is dispatched to
HandlerOf(family) ==
    CASE family = "Base" -> "handle_base"
      [] family = "Resume" -> "handle_stop_resume"
      [] family = "XUpcasePacket" -> "handle_x_upcase_packet"
      [] family = "SingleRegisterAccess" -> "handle_single_register_access"
      [] family = "Breakpoints" -> "handle_breakpoints"
      [] family = "CatchSyscalls" -> "handle_catch_syscalls"
      [] family = "ExtendedMode" -> "handle_extended_mode"
      [] family = "MonitorCmd" -> "handle_monitor_cmd"
      [] family = "SectionOffsets" -> "handle_section_offsets"
      [] family = "ReverseCont" -> "handle_reverse_cont"
      [] family = "ReverseStep" -> "handle_reverse_step"
      [] family = "MemoryMap" -> "handle_memory_map"
      [] family = "HostIo" -> "handle_host_io"
      [] family = "ExecFile" -> "handle_exec_file"
      [] family = "Auxv" -> "handle_auxv"

\* b"target has not implemented `support_resume()`\n"
ResumeStubMessage ==
    <<116, 97, 114, 103, 101, 116, 32, 104, 97, 115, 32, 110, 111, 116, 32, 105,
      109, 112, 108, 101, 109, 101, 110, 116, 101, 100, 32, 96, 115, 117, 112, 112,
      111, 114, 116, 95, 114, 101, 115, 117, 109, 101, 40, 41, 96, 10>>

\* cmd.get(0).map(|c| matches!(c, b'c' | b'C' | b's' | b'S')).unwrap_or(false)
is_resume_pkt(raw) ==
    IF Len(raw) > 0 THEN raw[1] \in {"c", "C", "s", "S"} ELSE FALSE

\* target.base_ops().resume_ops().is_none() && target.use_resume_stub(), as the
\* queries it makes: && does not evaluate its right side when the left is false
resume_stub_queries(resume_ops, use_resume_stub) ==
    <<Query("resume_ops", resume_ops)>>
        \o (IF resume_ops = "none"
            THEN <<Query("use_resume_stub", use_resume_stub)>> ELSE <<>>)

\* variant of resume_stub_applies: use_resume_stub() ignored
resume_stub_applies_without_opt_in(resume_ops, use_resume_stub) == resume_ops = "none"
resume_stub_applies(resume_ops, use_resume_stub) ==
    resume_ops = "none" /\ use_resume_stub = "true"

\* variant of unknown_resume_writes: the "O" frame is not flushed on its own
unknown_resume_writes_in_one_frame ==
    write_str(<<"O">>) \o write_hex_buf(ResumeStubMessage) \o write_str(<<"S", "0", "5">>)
\* what the Unknown branch writes for a resume packet: the "O" frame through a
\* writer of its own, flushed, then "S05" into the response of the command
unknown_resume_writes ==
    write_str(<<"O">>) \o write_hex_buf(ResumeStubMessage) \o flush
        \o write_str(<<"S", "0", "5">>)

\* variant of handle_unknown: a command that is not a stubbed resume request is
\* answered with the recoverable error
handle_unknown_rejects(raw, resume_ops, use_resume_stub, na, mt, rt) ==
    IF resume_stub_applies(resume_ops, use_resume_stub) /\ is_resume_pkt(raw)
    THEN {Run(resume_stub_queries(resume_ops, use_resume_stub) \o a.done, NoTargetResult,
              IF a.ok THEN Ok(Handled) ELSE ConnectionWrite, na, mt, rt) :
            a \in Attempts(unknown_resume_writes)}
    ELSE {Run(resume_stub_queries(resume_ops, use_resume_stub), NoTargetResult,
              Err("NonFatalError", EREMOTEIO), na, mt, rt)}
\* variant of handle_unknown: the diagnostic switches acknowledgments off
handle_unknown_sets_no_ack(raw, resume_ops, use_resume_stub, na, mt, rt) ==
    LET writes ==
            IF resume_stub_applies(resume_ops, use_resume_stub) /\ is_resume_pkt(raw)
            THEN unknown_resume_writes ELSE <<>>
    IN {Run(resume_stub_queries(resume_ops, use_resume_stub) \o a.done, NoTargetResult,
            IF a.ok THEN Ok(Handled) ELSE ConnectionWrite, TRUE, mt, rt) :
          a \in Attempts(writes)}
\* Command::Unknown(cmd) => ..., on a target that answers the two queries with
\* resume_ops and use_resume_stub
handle_unknown(raw, resume_ops, use_resume_stub, na, mt, rt) ==
    LET writes ==
            IF resume_stub_applies(resume_ops, use_resume_stub) /\ is_resume_pkt(raw)
            THEN unknown_resume_writes ELSE <<>>
    IN {Run(resume_stub_queries(resume_ops, use_resume_stub) \o a.done, NoTargetResult,
            IF a.ok THEN Ok(Handled) ELSE ConnectionWrite, na, mt, rt) :
          a \in Attempts(writes)}

\* the runs of handle_command(res, target, cmd) from a session state
handle_command(cmd, results, na, mt, rt) ==
    IF cmd.family = "Unknown"
    THEN UNION {handle_unknown(cmd.raw, ro, st, na, mt, rt) :
                  ro \in {"some", "none"}, st \in {"true", "false"}}
    ELSE HandlerRuns(HandlerOf(cmd.family), results, na, mt, rt)

(***************************************************************************)
(* GdbStubImpl::handle_packet                                              *)
(***************************************************************************)
Pump == [s |-> "Pump", reason |-> NoReason]
DeferredStopReason == [s |-> "DeferredStopReason", reason |-> NoReason]
CtrlCInterrupt == [s |-> "CtrlCInterrupt", reason |-> NoReason]
Disconnect(reason) == [s |-> "Disconnect", reason |-> reason]

\* variants of ack_writes: the test inverted, and the test left out
ack_writes_inverted(na) == IF na THEN <<Raw("+")>> ELSE <<>>
ack_writes_always(na) == <<Raw("+")>>
\* if !self.no_ack_mode { conn.write(b'+') }
ack_writes(na) == IF ~na THEN <<Raw("+")>> ELSE <<>>

\* an arm of the match on the result of handle_command either goes on to the
\* flush, after writing to the response, with the disconnect reason it yields,
\* or returns a value at once
Continue(writes, reason) ==
    [writes |-> writes, return |-> FALSE, reason |-> reason, value |-> NoResult]
ReturnNow(value) ==
    [writes |-> <<>>, return |-> TRUE, reason |-> NoReason, value |-> value]

\* Ok(HandlerStatus::Handled) => None
arm_handled == Continue(<<>>, NoReason)

\* variant of arm_needs_ok: the success marker is not written
arm_needs_ok_silent == Continue(<<>>, NoReason)
\* Ok(HandlerStatus::NeedsOk) => { res.write_str("OK")?; None }
arm_needs_ok == Continue(write_str(<<"O", "K">>), NoReason)

\* variant of arm_deferred: goes on to the flush
arm_deferred_flushes == Continue(<<>>, NoReason)
\* Ok(HandlerStatus::DeferredStopReason) => return Ok(State::DeferredStopReason)
arm_deferred == ReturnNow(Ok(DeferredStopReason))

\* Ok(HandlerStatus::Disconnect(reason)) => Some(reason)
arm_disconnect(reason) == Continue(<<>>, reason)

\* variant of arm_non_fatal: the recoverable error is propagated
arm_non_fatal_aborts(code) == ReturnNow(Err("NonFatalError", code))
\* Err(Error::NonFatalError(code)) => { res.write_str("E")?; res.write_num(code)?; None }
arm_non_fatal(code) == Continue(write_str(<<"E">>) \o write_num(code), NoReason)

\* variant of arm_error: the error is taken like Handled
arm_error_swallowed(e) == Continue(<<>>, NoReason)
\* Err(e) => return Err(e)
arm_error(e) == ReturnNow(e)

\* let disconnect_reason = match self.handle_command(&mut res, target, command) { ... }
interpret(h) ==
    IF h.ok /\ h.v.s = "Handled" THEN arm_handled
    ELSE IF h.ok /\ h.v.s = "NeedsOk" THEN arm_needs_ok
    ELSE IF h.ok /\ h.v.s = "DeferredStopReason" THEN arm_deferred
    ELSE IF h.ok /\ h.v.s = "Disconnect" THEN arm_disconnect(h.v.reason)
    ELSE IF h.err = "NonFatalError" THEN arm_non_fatal(h.ev)
    ELSE arm_error(h)

\* matches!(disconnect_reason, Some(DisconnectReason::Kill))
is_kill(reason) == reason.r = "Kill"

\* variant of needs_flush: the extended-mode test left out
needs_flush_unless_kill(extended_mode, reason) == ~is_kill(reason)
\* !(target.support_extended_mode().is_none() && is_kill)
needs_flush(extended_mode, reason) == ~(extended_mode = "none" /\ is_kill(reason))

\* variant of final_state: the disconnect reason is forgotten
final_state_pumps(reason) == Pump
\* match disconnect_reason { Some(reason) => Disconnect(reason), None => Pump }
final_state(reason) == IF reason = NoReason THEN Pump ELSE Disconnect(reason)

(***************************************************************************)
(* The driver loop (not part of the sources at hand; specification,        *)
(* sections 2, 6 and 7): it pumps the next packet into the session unless  *)
(* the call returned an error or a disconnect.                             *)
(***************************************************************************)
Pumping(r) == r.ok /\ r.v.s # "Disconnect"

(***************************************************************************)
(* The state machine.                                                      *)
(***************************************************************************)
Session == [na |-> no_ack_mode, mt |-> current_mem_tid, rt |-> current_resume_tid]

\* GdbStubImpl::new
NoPrev ==
    [some |-> FALSE, cmd |-> NoCommand, log |-> <<>>, ret |-> NoResult,
     entry |-> [na |-> FALSE, mt |-> SINGLE_THREAD_TID,
                rt |-> [kind |-> "WithId", id |-> SINGLE_THREAD_TID]],
     exit |-> [na |-> FALSE, mt |-> SINGLE_THREAD_TID,
               rt |-> [kind |-> "WithId", id |-> SINGLE_THREAD_TID]]]

New ==
    /\ no_ack_mode = FALSE
    /\ prev = NoPrev
    /\ current_mem_tid = SINGLE_THREAD_TID
    /\ current_resume_tid = [kind |-> "WithId", id |-> SINGLE_THREAD_TID]
    /\ pc = "idle"
    /\ packet = [kind |-> "Ack", cmd |-> NoCommand]
    /\ log = <<>>
    /\ tres = NoTargetResult
    /\ hres = NoResult
    /\ disconnect_reason = NoReason
    /\ ret = NoResult
    /\ entry = [na |-> FALSE, mt |-> SINGLE_THREAD_TID,
                rt |-> [kind |-> "WithId", id |-> SINGLE_THREAD_TID]]
    /\ alive = TRUE

Init == New /\ world = "session"

InitErr == New /\ world = "errors"

InitTwice == New /\ world = "twice"

\* handle_packet returns r to the driver
Return(r) ==
    /\ ret' = r
    /\ pc' = "idle"
    /\ alive' = Pumping(r)

\* the call that has just returned was an Unknown command, answered by a
\* resume-incapable, stub-enabled target, and it returned Ok
DiagnosticCall ==
    /\ pc = "idle" /\ packet.kind = "Command" /\ packet.cmd.family = "Unknown"
    /\ ret.ok
    /\ \E i \in 1..Len(log) : log[i] = Query("resume_ops", "none")
    /\ \E i \in 1..Len(log) : log[i] = Query("use_resume_stub", "true")

\* what prev holds once packet p is taken: the last diagnostic call, kept
\* across Ack and Interrupt packets up to the next call of the same command
\* (only in world "twice")
Remember(p) ==
    LET last == IF DiagnosticCall
                THEN [some |-> TRUE, cmd |-> packet.cmd, log |-> log, ret |-> ret,
                      entry |-> entry, exit |-> Session]
                ELSE IF packet.kind \in {"Ack", "Interrupt"} THEN prev ELSE NoPrev
    IN IF world # "twice" THEN NoPrev
       ELSE IF p.kind \in {"Ack", "Interrupt"} THEN last
       ELSE IF p.kind = "Command" /\ last.some /\ p.cmd = last.cmd THEN last
       ELSE NoPrev

\* the driver calls handle_packet(target, conn, p)
Begin(p) ==
    /\ pc = "idle"
    /\ alive
    /\ packet' = p
    /\ entry' = Session
    /\ log' = <<>>
    /\ tres' = NoTargetResult
    /\ hres' = NoResult
    /\ disconnect_reason' = NoReason
    /\ prev' = Remember(p)
    /\ UNCHANGED <<no_ack_mode, current_mem_tid, current_resume_tid, world>>

\* Packet::Ack => Ok(State::Pump)
RecvAck ==
    /\ Begin([kind |-> "Ack", cmd |-> NoCommand])
    /\ Return(Ok(Pump))

\* variant of RecvNack: the Nack is taken like an Ack
RecvNack_ignored ==
    /\ Begin([kind |-> "Nack", cmd |-> NoCommand])
    /\ Return(Ok(Pump))
\* Packet::Nack => Err(Error::ClientSentNack)
RecvNack ==
    /\ Begin([kind |-> "Nack", cmd |-> NoCommand])
    /\ Return(Err("ClientSentNack", 0))

\* variant of RecvInterrupt: the interrupt is taken like an Ack
RecvInterrupt_pumps ==
    /\ Begin([kind |-> "Interrupt", cmd |-> NoCommand])
    /\ Return(Ok(Pump))
\* Packet::Interrupt => Ok(State::CtrlCInterrupt)
RecvInterrupt ==
    /\ Begin([kind |-> "Interrupt", cmd |-> NoCommand])
    /\ Return(Ok(CtrlCInterrupt))

\* Packet::Command(command) => { ...
RecvCommand ==
    \E c \in CommandsOf(world) :
        /\ Begin([kind |-> "Command", cmd |-> c])
        /\ pc' = "ack"
        /\ ret' = NoResult
        /\ UNCHANGED alive

\* variant of Acknowledge: a failed acknowledgment write is not propagated
Acknowledge_unchecked ==
    /\ pc = "ack"
    /\ \E a \in Attempts(ack_writes(no_ack_mode)) :
        /\ log' = log \o a.done
        /\ pc' = "dispatch" /\ UNCHANGED <<ret, alive>>
    /\ UNCHANGED <<no_ack_mode, current_mem_tid, current_resume_tid, world, prev, packet,
                   tres, hres, disconnect_reason, entry>>

\* if !self.no_ack_mode { conn.write(b'+').map_err(Error::ConnectionWrite)?; }
Acknowledge ==
    /\ pc = "ack"
    /\ \E a \in Attempts(ack_writes(no_ack_mode)) :
        /\ log' = log \o a.done
        /\ IF a.ok
           THEN pc' = "dispatch" /\ UNCHANGED <<ret, alive>>
           ELSE Return(ConnectionWrite)
    /\ UNCHANGED <<no_ack_mode, current_mem_tid, current_resume_tid, world, prev, packet,
                   tres, hres, disconnect_reason, entry>>

\* self.handle_command(&mut res, target, command)
Dispatch ==
    /\ pc = "dispatch"
    /\ \E run \in handle_command(packet.cmd, ResultsOf(world), no_ack_mode,
                                 current_mem_tid, current_resume_tid) :
        /\ log' = log \o run.events
        /\ tres' = run.tr
        /\ hres' = run.res
        /\ no_ack_mode' = run.na
        /\ current_mem_tid' = run.mt
        /\ current_resume_tid' = run.rt
    /\ pc' = "interpret"
    /\ UNCHANGED <<world, prev, packet, disconnect_reason, ret, entry, alive>>

\* let disconnect_reason = match self.handle_command(...) { ... };
Interpret ==
    /\ pc = "interpret"
    /\ LET plan == interpret(hres)
       IN \E a \in Attempts(plan.writes) :
            /\ log' = log \o a.done
            /\ IF ~a.ok THEN Return(ConnectionWrite) /\ UNCHANGED disconnect_reason
               ELSE IF plan.return THEN Return(plan.value) /\ UNCHANGED disconnect_reason
               ELSE /\ disconnect_reason' = plan.reason
                    /\ pc' = "flush"
                    /\ UNCHANGED <<ret, alive>>
    /\ UNCHANGED <<no_ack_mode, current_mem_tid, current_resume_tid, world, prev, packet,
                   tres, hres, entry>>

\* variant of Flush: a failed flush is not propagated
Flush_unchecked ==
    /\ pc = "flush"
    /\ \E extended_mode \in {"some", "none"} :
         LET writes == IF needs_flush(extended_mode, disconnect_reason)
                       THEN flush ELSE <<>>
         IN \E a \in Attempts(writes) :
              /\ log' = log \o <<Query("support_extended_mode", extended_mode)>> \o a.done
              /\ Return(Ok(final_state(disconnect_reason)))
    /\ UNCHANGED <<no_ack_mode, current_mem_tid, current_resume_tid, world, prev, packet,
                   tres, hres, disconnect_reason, entry>>

\* if !(target.support_extended_mode().is_none() && is_kill) { res.flush()?; }
\* ... Ok(state), on a target that answers the query with extended_mode
Flush ==
    /\ pc = "flush"
    /\ \E extended_mode \in {"some", "none"} :
         LET writes == IF needs_flush(extended_mode, disconnect_reason)
                       THEN flush ELSE <<>>
         IN \E a \in Attempts(writes) :
              /\ log' = log \o <<Query("support_extended_mode", extended_mode)>> \o a.done
              /\ IF a.ok THEN Return(Ok(final_state(disconnect_reason)))
                 ELSE Return(ConnectionWrite)
    /\ UNCHANGED <<no_ack_mode, current_mem_tid, current_resume_tid, world, prev, packet,
                   tres, hres, disconnect_reason, entry>>

Next ==
    \/ RecvAck
    \/ RecvNack
    \/ RecvInterrupt
    \/ RecvCommand
    \/ Acknowledge
    \/ Dispatch
    \/ Interpret
    \/ Flush

\* a session that meets every command
Spec == Init /\ [][Next]_vars

\* a session of base commands whose target operations return any result
SpecErr == InitErr /\ [][Next]_vars

\* a session of base and unrecognized commands, which remembers the last
\* diagnostic call
SpecTwice == InitTwice /\ [][Next]_vars


(***************************************************************************)
(* Reading the log of a call.                                              *)
(***************************************************************************)
RECURSIVE Only(_, _)
\* the events of q whose kind is in kinds, in order
Only(q, kinds) ==
    IF q = <<>> THEN <<>>
    ELSE (IF Head(q).k \in kinds THEN <<Head(q)>> ELSE <<>>) \o Only(Tail(q), kinds)

\* what went to the connection: ack bytes, response bytes and flushes
Wire == Only(log, {"raw", "res", "flush"})

\* the characters of the response bytes, in order
Chars(q) == [i \in 1..Len(q) |-> q[i].v]

Count(kind) == Len(Only(log, {kind}))

\* the answer the target gave to query q in this call ("" when not asked)
Answer(q) ==
    IF \E i \in 1..Len(log) : log[i].k = "query" /\ log[i].v = q
    THEN log[CHOOSE i \in 1..Len(log) : log[i].k = "query" /\ log[i].v = q].a
    ELSE ""

\* the call of handle_packet for `packet` has returned
Returned == pc = "idle" /\ ret # NoResult

\* a connection operation failed during the call (the cases of C19 and C20)
ConnectionFailed == Returned /\ ret = Err("ConnectionWrite", 0)

IsCommand == packet.kind = "Command"

\* the ack bytes the call had to write when it began
AckPrefix == IF entry.na THEN <<>> ELSE <<[k |-> "raw", v |-> "+", a |-> ""]>>

\* the value of a lower-case hex digit
HexValue(c) ==
    CASE c = "0" -> 0 [] c = "1" -> 1 [] c = "2" -> 2 [] c = "3" -> 3
      [] c = "4" -> 4 [] c = "5" -> 5 [] c = "6" -> 6 [] c = "7" -> 7
      [] c = "8" -> 8 [] c = "9" -> 9 [] c = "a" -> 10 [] c = "b" -> 11
      [] c = "c" -> 12 [] c = "d" -> 13 [] c = "e" -> 14 [] c = "f" -> 15
      [] OTHER -> 1000

\* "O" and the hex encoding of "target has not implemented `support_resume()`\n"
ExpectedDiagnostic ==
    <<"O",
      "7", "4", "6", "1", "7", "2", "6", "7", "6", "5", "7", "4", "2", "0",
      "6", "8", "6", "1", "7", "3", "2", "0", "6", "e", "6", "f", "7", "4",
      "2", "0", "6", "9", "6", "d", "7", "0", "6", "c", "6", "5", "6", "d",
      "6", "5", "6", "e", "7", "4", "6", "5", "6", "4", "2", "0", "6", "0",
      "7", "3", "7", "5", "7", "0", "7", "0", "6", "f", "7", "2", "7", "4",
      "5", "f", "7", "2", "6", "5", "7", "3", "7", "5", "6", "d", "6", "5",
      "2", "8", "2", "9", "6", "0", "0", "a">>


\* the events of the response bytes of the characters cs
ResEvents(cs) == [i \in 1..Len(cs) |-> [k |-> "res", v |-> cs[i], a |-> ""]]

FlushEvent == [k |-> "flush", v |-> "", a |-> ""]
AckEvent == [k |-> "raw", v |-> "+", a |-> ""]

\* the last thing the call did was to flush the response
FlushedLast == log # <<>> /\ log[Len(log)] = FlushEvent

(***************************************************************************)
(* The claims.                                                             *)
(***************************************************************************)

\* C1: while no_ack_mode is false a Command packet causes exactly one ack byte,
\* written first: before any response byte, before the handler is invoked and
\* before any flush, whatever the outcome of the handler; the only call without
\* it is the one whose write of the ack byte failed.  Ack, Nack and Interrupt
\* packets cause no ack byte.
C1_AckFirst ==
    /\ ~IsCommand => Count("raw") = 0
    /\ (IsCommand /\ pc = "ack") => log = <<>>
    /\ (IsCommand /\ ~entry.na /\ pc # "ack") =>
          \/ ConnectionFailed /\ log = <<>>
          \/ /\ log # <<>>
             /\ log[1] = AckEvent
             /\ Count("raw") = 1
             /\ \A i \in 1..Len(log) : log[i].k \in {"res", "call", "flush", "query"} => i > 1

\* C1 witness: a command whose handler failed fatally was still acked first
C1_Witness ==
    /\ Returned /\ IsCommand /\ ~entry.na
    /\ hres.err = "TargetError"
    /\ log = <<AckEvent, [k |-> "call", v |-> "handle_breakpoints", a |-> ""]>>

\* C2: no_ack_mode starts false and never reverts to false; a call that begins
\* with no_ack_mode true writes no ack byte, for any packet and outcome; and no
\* step of handle_packet other than the call of an extension handler (so the
\* Unknown branch of the dispatcher neither) changes no_ack_mode,
\* current_mem_tid or current_resume_tid.
C2_NoAckSticky ==
    /\ no_ack_mode = FALSE
    /\ [][no_ack_mode => no_ack_mode']_vars
    /\ [](entry.na => Count("raw") = 0)
    /\ [][(pc # "dispatch" \/ packet.cmd.family = "Unknown")
            => UNCHANGED <<no_ack_mode, current_mem_tid, current_resume_tid>>]_vars

\* C2 witness: a command handled in no-ack mode, answered and flushed, no ack
C2_Witness ==
    /\ Returned /\ IsCommand /\ entry.na /\ no_ack_mode
    /\ ret = Ok(Pump)
    /\ Count("raw") = 0 /\ Count("flush") = 1

\* C3: when the handler returns DeferredStopReason, handle_packet returns
\* State::DeferredStopReason without reaching the flush: nothing is flushed, no
\* "OK" or other response byte is written, support_extended_mode is not
\* queried, and the connection saw nothing but the ack.
C3_DeferredReturnsAtOnce ==
    (hres = Ok(DeferredStopReason)) =>
        /\ pc \in {"interpret", "idle"}
        /\ pc = "idle" => ret = Ok(DeferredStopReason)
        /\ Count("flush") = 0
        /\ Count("res") = 0
        /\ Answer("support_extended_mode") = ""
        /\ Wire = AckPrefix

\* C3 witness: a deferred stop reason was returned after the ack alone
C3_Witness ==
    /\ Returned /\ hres = Ok(DeferredStopReason) /\ ret = Ok(DeferredStopReason)
    /\ Wire = <<AckEvent>>

\* C4: a call that got past the match on the handler's result without a
\* connection failure ends with the flush of the response, except exactly when
\* the disconnect reason is Kill and the target has no extended-mode support;
\* in both cases of Kill the call returns State::Disconnect(Kill), and with
\* Kill and no extended mode nothing is flushed after the ack.
C4_KillFlush ==
    LET ext == Answer("support_extended_mode")
        kill == [r |-> "Kill", v |-> 0]
    IN /\ (Returned /\ IsCommand /\ ret.ok /\ ret.v.s \in {"Pump", "Disconnect"}) =>
            /\ ext \in {"some", "none"}
            /\ FlushedLast <=> ~(ret.v = Disconnect(kill) /\ ext = "none")
       /\ (Returned /\ hres = Ok(Disconnect(kill)) /\ ext = "none") =>
            /\ ret = Ok(Disconnect(kill))
            /\ Count("flush") = 0
       /\ (Returned /\ hres = Ok(Disconnect(kill)) /\ ext = "some" /\ ~ConnectionFailed) =>
            /\ ret = Ok(Disconnect(kill))
            /\ FlushedLast /\ Count("flush") = 1

\* C4 witness: Kill on a target without extended mode: a response body was
\* written, not flushed, and Disconnect(Kill) returned
C4_Witness ==
    /\ Returned /\ ret = Ok(Disconnect([r |-> "Kill", v |-> 0]))
    /\ Answer("support_extended_mode") = "none"
    /\ Count("res") = 1 /\ Count("flush") = 0

\* C5: handle_error follows the rule table: success(v) gives success(v);
\* Fatal(e) gives TargetError(e); NonFatal gives the recoverable error 121;
\* Errno(code) gives the recoverable error with that code; an error is never
\* turned into a success, nor a recoverable error into TargetError; and the
\* handler returns that error as it is.
C5_HandleErrorTable ==
    (tres # NoTargetResult) =>
        LET r == handle_error(tres)
        IN /\ tres.t = "Ok" =>
                /\ r = [ok |-> TRUE, v |-> tres.v, err |-> "", ev |-> 0]
                /\ hres.err \notin {"TargetError", "NonFatalError"}
           /\ tres.t = "Fatal" =>
                /\ r = [ok |-> FALSE, v |-> 0, err |-> "TargetError", ev |-> tres.v]
                /\ hres = Err("TargetError", tres.v)
           /\ tres.t = "NonFatal" =>
                /\ r = [ok |-> FALSE, v |-> 0, err |-> "NonFatalError", ev |-> 121]
                /\ hres = Err("NonFatalError", 121)
           /\ tres.t = "Errno" =>
                /\ r = [ok |-> FALSE, v |-> 0, err |-> "NonFatalError", ev |-> tres.v]
                /\ hres = Err("NonFatalError", tres.v)
           /\ tres.t = "Io" => ~r.ok /\ r.err = "NonFatalError" /\ hres = Err(r.err, r.ev)

\* C5 witness: Errno(14) became the recoverable error 14
C5_Witness ==
    /\ tres = [t |-> "Errno", v |-> 14, some |-> TRUE]
    /\ hres = Err("NonFatalError", 14)

\* C6: when the handler fails with the recoverable error n and the connection
\* works, the response is "E" and the two hex digits of n ("E0e" for 14, "E79"
\* for NonFatal), it is flushed, State::Pump is returned and the driver goes on
\* with the next packet.
C6_RecoverableErrorReply ==
    (Returned /\ ~ConnectionFailed /\ ~hres.ok /\ hres.err = "NonFatalError") =>
        LET body == Chars(Only(log, {"res"}))
        IN /\ hres.ev \in 0..255
           /\ Len(body) = 3
           /\ body[1] = "E"
           /\ 16 * HexValue(body[2]) + HexValue(body[3]) = hres.ev
           /\ hres.ev = 14 => body = <<"E", "0", "e">>
           /\ tres.t = "NonFatal" => body = <<"E", "7", "9">>
           /\ Wire = AckPrefix \o ResEvents(body) \o <<FlushEvent>>
           /\ ret = Ok(Pump)
           /\ alive
           /\ ENABLED RecvCommand

\* C6 witness: Errno(14) was answered with the flushed frame "E0e"
C6_Witness ==
    /\ Returned /\ tres = [t |-> "Errno", v |-> 14, some |-> TRUE]
    /\ Wire = <<AckEvent>> \o ResEvents(<<"E", "0", "e">>) \o <<FlushEvent>>
    /\ ret = Ok(Pump)

\* C7: when the handler fails with a fatal target error e, handle_packet
\* returns TargetError(e) with the same e, writes no response byte and flushes
\* nothing: the connection saw nothing but the ack.
C7_FatalPropagates ==
    (tres.t = "Fatal") =>
        /\ hres = Err("TargetError", tres.v)
        /\ pc \in {"interpret", "idle"}
        /\ pc = "idle" => ret = Err("TargetError", tres.v) /\ ~alive
        /\ Count("res") = 0
        /\ Count("flush") = 0
        /\ Wire = AckPrefix

\* C7 witness: the fatal error 2 of the target was returned after the ack alone
C7_Witness ==
    /\ Returned /\ tres = [t |-> "Fatal", v |-> 2, some |-> TRUE]
    /\ ret = Err("TargetError", 2)
    /\ Wire = <<AckEvent>>

\* C8: a Nack packet makes handle_packet return ClientSentNack, in no-ack mode
\* too; nothing is written, no handler is invoked, no target query or
\* operation is made, and the session state is as it was.
C8_NackFails ==
    (packet.kind = "Nack") =>
        /\ pc = "idle"
        /\ ret = Err("ClientSentNack", 0)
        /\ log = <<>>
        /\ tres = NoTargetResult /\ hres = NoResult
        /\ Session = entry
        /\ ~alive

\* C8 witness: a Nack received in no-ack mode
C8_Witness ==
    /\ packet.kind = "Nack" /\ entry.na
    /\ ret = Err("ClientSentNack", 0)

\* the resume-stub diagnostic applies to the current call: the target answered
\* that it has no resume operations and that it uses the resume stub, and the
\* raw command begins with 'c', 'C', 's' or 'S'
StubCase ==
    /\ IsCommand /\ packet.cmd.family = "Unknown"
    /\ packet.cmd.raw # <<>>
    /\ packet.cmd.raw[1] \in {"c", "C", "s", "S"}
    /\ Answer("resume_ops") = "none"
    /\ Answer("use_resume_stub") = "true"

\* C9: in the resume-stub case with no_ack_mode false and a working
\* connection, the connection sees, in this order: the ack byte, the frame "O"
\* + hex(diagnostic), a flush, the frame "S05", a flush; State::Pump is returned.
C9_ResumeStubOrder ==
    (Returned /\ ~ConnectionFailed /\ StubCase /\ ~entry.na) =>
        /\ Wire = <<AckEvent>> \o ResEvents(ExpectedDiagnostic) \o <<FlushEvent>>
                    \o ResEvents(<<"S", "0", "5">>) \o <<FlushEvent>>
        /\ ret = Ok(Pump)

\* C9 witness: 'c' was answered with the two flushed frames
C9_Witness ==
    /\ Returned /\ StubCase /\ ~entry.na /\ packet.cmd.raw = <<"c">>
    /\ Count("flush") = 2 /\ Count("res") = Len(ExpectedDiagnostic) + 3
    /\ ret = Ok(Pump)

\* C10: an Unknown command gets response bytes only in the resume-stub case;
\* in every other case (an empty raw command too) the response is empty,
\* flushed once, and State::Pump is returned.
C10_StubOnlyIfAll ==
    (IsCommand /\ packet.cmd.family = "Unknown") =>
        /\ Count("res") > 0 => StubCase
        /\ (Returned /\ ~ConnectionFailed /\ ~StubCase) =>
              /\ Wire = AckPrefix \o <<FlushEvent>>
              /\ ret = Ok(Pump)

\* C10 witness: an empty raw command to a resume-incapable target with the
\* stub enabled got the empty flushed response
C10_Witness ==
    /\ Returned /\ IsCommand /\ packet.cmd.family = "Unknown" /\ packet.cmd.raw = <<>>
    /\ Answer("resume_ops") = "none" /\ Answer("use_resume_stub") = "true"
    /\ Wire = AckPrefix \o <<FlushEvent>>
    /\ ret = Ok(Pump)


\* C11: an Unknown command is never an error of the command: the dispatcher
\* calls no target operation and its outcome is Handled for every raw payload
\* and every answer of the target (it can fail only with the connection, while
\* writing the resume-stub diagnostic); with a working connection State::Pump
\* is returned and the response is empty or the diagnostic, never an "E" reply.
C11_UnknownIsHandled ==
    (IsCommand /\ packet.cmd.family = "Unknown" /\ pc \notin {"ack", "dispatch"}
       /\ ~(Returned /\ hres = NoResult)) =>
        /\ tres = NoTargetResult
        /\ hres \in {Ok([s |-> "Handled", reason |-> NoReason]), Err("ConnectionWrite", 0)}
        /\ ~StubCase => hres.ok
        /\ (Returned /\ ~ConnectionFailed) =>
              /\ ret = Ok(Pump)
              /\ LET body == Chars(Only(log, {"res"}))
                 IN body = <<>> \/ body[1] = "O"

\* C11 witness: the unknown command "x" was handled and Pump returned
C11_Witness ==
    /\ Returned /\ IsCommand /\ packet.cmd = [family |-> "Unknown", raw |-> <<"x">>]
    /\ hres = Ok([s |-> "Handled", reason |-> NoReason])
    /\ ret = Ok(Pump)


\* C13: handle_packet returns an error only for a failed connection operation,
\* a Nack, or a fatal error of the target; every other outcome returns one of
\* the states Pump, DeferredStopReason, CtrlCInterrupt, Disconnect(reason), and
\* a recoverable error is answered with a flushed response.
C13_OnlyFatalEscapes ==
    Returned =>
        /\ ret.ok => ret.v \in State
        /\ ~ret.ok => ret.err \in {"ConnectionWrite", "ClientSentNack", "TargetError"}
        /\ ret.err = "ClientSentNack" <=> packet.kind = "Nack"
        /\ ret.err = "TargetError" <=> (IsCommand /\ tres.t = "Fatal")
        /\ (IsCommand /\ tres.t \in {"NonFatal", "Errno", "Io"} /\ ~ConnectionFailed) =>
              /\ ret = Ok(Pump)
              /\ Count("res") > 0
              /\ FlushedLast

\* C13 witness: the recoverable error of an Io result was absorbed into a
\* flushed reply and Pump
C13_Witness ==
    /\ Returned /\ IsCommand /\ tres.t = "Io"
    /\ ret = Ok(Pump) /\ FlushedLast /\ Count("res") = 3

\* C14: an Ack packet returns State::Pump and an Interrupt packet returns
\* State::CtrlCInterrupt; the call writes and flushes nothing (no ack either,
\* whatever no_ack_mode is), invokes no handler, asks the target nothing and
\* leaves the session state as it was.
C14_AckAndInterrupt ==
    (packet.kind \in {"Ack", "Interrupt"} /\ ret # NoResult) =>
        /\ pc = "idle"
        /\ packet.kind = "Ack" => ret = Ok(Pump)
        /\ packet.kind = "Interrupt" => ret = Ok(CtrlCInterrupt)
        /\ log = <<>>
        /\ tres = NoTargetResult /\ hres = NoResult
        /\ Session = entry
        /\ alive

\* C14 witness: an Interrupt received in no-ack mode
C14_Witness ==
    /\ packet.kind = "Interrupt" /\ entry.na
    /\ ret = Ok(CtrlCInterrupt) /\ log = <<>>

\* C15: a Command call that returns Ok returns State::Disconnect(r) exactly
\* when the handler returned Disconnect(r), with the same r (also when the
\* flush was skipped for Kill), State::DeferredStopReason exactly when the
\* handler deferred, and State::Pump for Handled, NeedsOk and a recoverable
\* error.
C15_ReturnedState ==
    (Returned /\ IsCommand /\ ret.ok) =>
        /\ \A r \in DisconnectReason :
              ret = Ok([s |-> "Disconnect", reason |-> r])
                <=> hres = Ok([s |-> "Disconnect", reason |-> r])
        /\ ret.v.s = "Disconnect" => ret.v.reason \in DisconnectReason
        /\ ret = Ok([s |-> "DeferredStopReason", reason |-> NoReason])
              <=> hres = Ok([s |-> "DeferredStopReason", reason |-> NoReason])
        /\ (hres.ok /\ hres.v.s \in {"Handled", "NeedsOk"}) => ret = Ok(Pump)
        /\ (~hres.ok /\ hres.err = "NonFatalError") => ret = Ok(Pump)
        /\ ret = Ok(Pump) =>
              \/ hres.ok /\ hres.v.s \in {"Handled", "NeedsOk"}
              \/ ~hres.ok /\ hres.err = "NonFatalError"

\* C15 witness: TargetExited(1) was returned as State::Disconnect(TargetExited(1))
C15_Witness ==
    /\ Returned /\ IsCommand
    /\ hres = Ok([s |-> "Disconnect", reason |-> [r |-> "TargetExited", v |-> 1]])
    /\ ret = Ok([s |-> "Disconnect", reason |-> [r |-> "TargetExited", v |-> 1]])


\* C16: for a target result Io(e) the recoverable error carries the OS error
\* code of e when e has one, and 121 otherwise, for every OS error code.
C16_IoCodeIsOsCode ==
    (tres.t = "Io" /\ hres # NoResult) =>
        hres = Err("NonFatalError", IF tres.some THEN tres.v ELSE 121)

\* C17: every Command call that returned Ok with a state other than
\* DeferredStopReason ended with the flush of its response, after all response
\* bytes, except Disconnect(Kill) on a target without extended mode; for
\* NeedsOk the response is the handler's output followed by "OK", then the flush.
C17_ReplyFlushed ==
    (Returned /\ IsCommand /\ ret.ok /\ ret.v.s # "DeferredStopReason") =>
        LET body == Chars(Only(log, {"res"}))
            n == Len(body)
            killed == /\ ret.v = [s |-> "Disconnect", reason |-> [r |-> "Kill", v |-> 0]]
                      /\ Answer("support_extended_mode") = "none"
        IN /\ ~killed => FlushedLast
           /\ killed => Count("flush") = 0
           /\ (hres.ok /\ hres.v.s = "NeedsOk") =>
                 /\ n >= 2
                 /\ body[n - 1] = "O" /\ body[n] = "K"
                 /\ \A i \in 1..(n - 2) : body[i] = "m"
                 /\ Wire = AckPrefix \o ResEvents(body) \o <<FlushEvent>>
           /\ (hres.ok /\ hres.v.s = "Handled" /\ packet.cmd.family # "Unknown") =>
                 /\ \A i \in 1..n : body[i] = "m"
                 /\ Wire = AckPrefix \o ResEvents(body) \o <<FlushEvent>>

\* C17 witness: a handler wrote "m" and asked for OK: "mOK" was flushed
C17_Witness ==
    /\ Returned /\ IsCommand /\ hres = Ok([s |-> "NeedsOk", reason |-> NoReason])
    /\ Wire = <<AckEvent>> \o ResEvents(<<"m", "O", "K">>) \o <<FlushEvent>>
    /\ ret = Ok(Pump)


\* the owner of each command family, as the dispatch table of the
\* specification lists it
C18_Owner ==
    {<<"Base", "handle_base">>, <<"Resume", "handle_stop_resume">>,
     <<"XUpcasePacket", "handle_x_upcase_packet">>,
     <<"SingleRegisterAccess", "handle_single_register_access">>,
     <<"Breakpoints", "handle_breakpoints">>,
     <<"CatchSyscalls", "handle_catch_syscalls">>,
     <<"ExtendedMode", "handle_extended_mode">>,
     <<"MonitorCmd", "handle_monitor_cmd">>,
     <<"SectionOffsets", "handle_section_offsets">>,
     <<"ReverseCont", "handle_reverse_cont">>,
     <<"ReverseStep", "handle_reverse_step">>,
     <<"MemoryMap", "handle_memory_map">>, <<"HostIo", "handle_host_io">>,
     <<"ExecFile", "handle_exec_file">>, <<"Auxv", "handle_auxv">>}

\* C18: a dispatched Command invokes the handler that owns its family, exactly
\* once, and no other handler; an Unknown command invokes none; no handler
\* runs before the dispatch or for a packet that is not a Command.
C18_OneOwningHandler ==
    LET calls == Only(log, {"call"})
        dispatched == IsCommand /\ pc \notin {"ack", "dispatch"} /\ hres # NoResult
    IN /\ ~dispatched => calls = <<>>
       /\ (dispatched /\ packet.cmd.family = "Unknown") => calls = <<>>
       /\ (dispatched /\ packet.cmd.family # "Unknown") =>
             /\ Len(calls) = 1
             /\ <<packet.cmd.family, calls[1].v>> \in C18_Owner

\* C18 witness: a ReverseStep command returned after exactly one call, of
\* handle_reverse_step
C18_Witness ==
    /\ Returned /\ IsCommand /\ packet.cmd.family = "ReverseStep"
    /\ Only(log, {"call"}) = <<Call("handle_reverse_step")>>
    /\ ret.ok


\* C19: when the write of the acknowledgment byte fails, the call returns the
\* connection-write error at once: nothing was written, no handler ran, the
\* target was not asked anything and the session state is as at entry.
C19_AckFailureAborts ==
    (IsCommand /\ ~entry.na /\ pc # "ack" /\ Count("raw") = 0) =>
        /\ Returned
        /\ ret = Err("ConnectionWrite", 0)
        /\ log = <<>>
        /\ hres = NoResult /\ tres = NoTargetResult
        /\ Session = entry

\* C19 witness: a Resume command whose acknowledgment could not be written
C19_Witness ==
    /\ Returned /\ IsCommand /\ packet.cmd.family = "Resume" /\ ~entry.na
    /\ log = <<>> /\ ret = Err("ConnectionWrite", 0)

\* the flush of this call was attempted and failed
C20_FlushFailed ==
    /\ Answer("support_extended_mode") # ""
    /\ ~(disconnect_reason.r = "Kill" /\ Answer("support_extended_mode") = "none")
    /\ ~FlushedLast

\* the call ended in the result-interpretation step, before the flush rule
C20_ReplyWriteFailed == Returned /\ Answer("support_extended_mode") = ""

\* C20: a failed flush turns the result into the connection error, also when
\* the handler returned Disconnect(reason); a failed write of "OK" or of the
\* "E.." reply makes the call return the connection error as well.
C20_WriteFailureWins ==
    (Returned /\ IsCommand /\ hres # NoResult) =>
        /\ C20_FlushFailed =>
              /\ ret = Err("ConnectionWrite", 0)
              /\ log[Len(log)].k = "query"
        /\ (hres.ok /\ hres.v.s = "Disconnect") =>
              (ret = Ok([s |-> "Disconnect", reason |-> hres.v.reason])
                 <=> ~C20_FlushFailed)
        /\ ((hres.ok /\ hres.v.s = "NeedsOk") \/ hres.err = "NonFatalError") =>
              /\ C20_ReplyWriteFailed <=>
                    LET body == Chars(Only(log, {"res"}))
                    IN IF hres.ok
                       THEN body = <<>> \/ body[Len(body)] # "K"
                       ELSE ~(Len(body) >= 3 /\ body[Len(body) - 2] = "E")
              /\ C20_ReplyWriteFailed => ret = Err("ConnectionWrite", 0)

\* C20 witness: the handler returned Disconnect(TargetExited), the flush
\* failed and the call returned the connection error
C20_Witness ==
    /\ Returned /\ IsCommand
    /\ hres.ok /\ hres.v.s = "Disconnect" /\ hres.v.reason.r = "TargetExited"
    /\ C20_FlushFailed
    /\ ret = Err("ConnectionWrite", 0)


\* the current call is an Unknown command on a resume-incapable, stub-enabled
\* target, the same command as the diagnostic call remembered in prev
C12_SecondCall ==
    /\ prev.some
    /\ IsCommand /\ packet.cmd.family = "Unknown" /\ packet.cmd = prev.cmd
    /\ Answer("resume_ops") = "none" /\ Answer("use_resume_stub") = "true"

\* C12: the same unrecognized command sent twice in one session to a
\* resume-incapable, stub-enabled target puts the same bytes and flushes on
\* the connection both times (ack, "O" frame, "S05" frame) and returns the
\* same state, and the first call leaves the session state as it was.
C12_SameDiagnostic ==
    /\ prev.some => prev.exit = prev.entry
    /\ (C12_SecondCall /\ Returned /\ ~ConnectionFailed) =>
          /\ Wire = Only(prev.log, {"raw", "res", "flush"})
          /\ ret = prev.ret
          /\ entry = prev.entry
          /\ Session = entry

\* C12 witness: the second of two calls with the same resume request has
\* returned, on a connection with acknowledgments, after an "O" and an "S05" frame
C12_Witness ==
    /\ C12_SecondCall /\ StubCase /\ Returned /\ ret = Ok(Pump)
    /\ ~entry.na
    /\ Count("flush") = 2
    /\ Wire = Only(prev.log, {"raw", "res", "flush"})

=============================================================================
